---------------------------- MODULE Spec2Model ----------------------------
(***************************************************************************)
(* SnapBoxServer (src/snapbox/server.py): the start of main() up to         *)
(* listening, the websocket registry self.websockets, the udev observer     *)
(* thread running usb_device_event, and the connection-handling contexts    *)
(* calling add_websocket and remove_websocket.  One step of the model is    *)
(* one operation the Python interpreter runs without releasing the GIL: a   *)
(* list membership test, a                                                  *)
(* list.append, a list.remove, one advance of the list iterator, one        *)
(* write_message call.  A read of camera.get_connect() is joined to the     *)
(* step before it where no other thread can tell the difference.            *)
(***************************************************************************)
EXTENDS Integers, Sequences, FiniteSets, TLC

\* ------------------------------------------------------------------ bounds
\* Spec: runs of two calls and two broadcasts
MaxEvents == 2      \* device events that are broadcast in one run
MaxCalls  == 2      \* add_websocket / remove_websocket calls made in one run
\* SpecRace: runs of three calls racing each other and one broadcast
MaxRaceEvents == 1
MaxRaceCalls  == 3
\* SpecStart: runs in which udev_init is called more than once
MaxStarts == 2

WebSockets  == {"w1", "w2"}          \* websocket handler objects
Handlers    == {"h1", "h2"}          \* connection-handling contexts
\* udev events of the usb subsystem: the two that report the camera, one with
\* another action, one of another device type
Devices     == {[action |-> "add",    device_type |-> "usb_interface"],
                [action |-> "remove", device_type |-> "usb_interface"],
                [action |-> "change", device_type |-> "usb_interface"],
                [action |-> "add",    device_type |-> "usb_device"]}
NoSocket    == "none"
Order(x)    == IF x \in {"w1", "h1"} THEN 1 ELSE 2

VARIABLES
    websockets,   \* self.websockets: a Python list of websocket handlers
    connected,    \* what self.camera.get_connect() returns
    closed,       \* websockets a write_message has found closed: it raises on them
    mon,          \* the observer thread inside usb_device_event; history: whether
                  \* its event qualifies, what its camera.load() stored, and, until
                  \* the thread's next step, whether the probe of that load failed
    ctx,          \* the connection-handling contexts inside add/remove_websocket
    received,     \* per websocket: the messages written to it since it subscribed
    bc,           \* history: the broadcast in progress (the websockets registered once
                  \* when it started, neither removed nor appended again since; the
                  \* deliveries so far; the values written so far)
    removed,      \* history: websockets whose list.remove has completed, not re-appended
    expect,       \* history: membership implied by the completed adds and removes
    cnt,          \* calls, events and udev_init calls the run may still make, the
                  \* connection-handling contexts it uses; history: qualifying
                  \* events handled, broadcasts started
    proc          \* main(): where it is, the observer threads started; history:
                  \* whether the constructor could open the udev source

vars == <<websockets, connected, closed, mon, ctx, received,
          bc, removed, expect, cnt, proc>>

\* ----------------------------------------------------------- list helpers
Range(s) == {s[i] : i \in 1..Len(s)}

\* the websockets registered exactly once
Once(list) == {w \in Range(list) : Cardinality({i \in 1..Len(list) : list[i] = w}) = 1}

\* `websocket in self.websockets`
Contains(list, w) == \E i \in 1..Len(list) : list[i] = w

FirstIndex(list, w) == CHOOSE i \in 1..Len(list) :
                          list[i] = w /\ \A j \in 1..(i - 1) : list[j] # w

\* list.remove(w): drops the first occurrence only
ListRemove(list, w) ==
    LET k == FirstIndex(list, w)
    IN  [i \in 1..(Len(list) - 1) |-> IF i < k THEN list[i] ELSE list[i + 1]]

\* The JSON written by both send paths is
\* {"event":"update","type":"state","mutation":"camera/setIsConnected","value":v};
\* `via` records which path wrote it.
Message(path, v) == [via |-> path, value |-> v]

IdleMon == [pc |-> "idle", qual |-> FALSE, msg |-> FALSE, idx |-> 0, cur |-> NoSocket,
            refreshed |-> {}, probe |-> "none"]
IdleCtx == [pc |-> "idle", op |-> "none", ws |-> NoSocket, val |-> FALSE,
            seen |-> {}, taint |-> FALSE]
NoBroadcast == [stayed |-> {}, got |-> [w \in WebSockets |-> 0], vals |-> {}]

\* lines 28-55, 203: main() is inside SnapBoxServer.__init__, the fields are
\* set and self.udev_init() (line 57) is the next statement.  A run makes
\* `starts` calls of udev_init, the first of them this one, and its
\* add_websocket / remove_websocket calls come from `contexts` contexts.
Start(events, calls, starts, contexts) ==
    /\ websockets = <<>>
    /\ connected \in BOOLEAN
    /\ closed = {}
    /\ mon = IdleMon
    /\ ctx = [h \in Handlers |-> IdleCtx]
    /\ received = [w \in WebSockets |-> <<>>]
    /\ bc = NoBroadcast
    /\ removed = {}
    /\ expect = [w \in WebSockets |-> "out"]
    /\ cnt = [calls |-> calls, events |-> events, starts |-> starts,
              contexts |-> contexts, qualifying |-> 0, broadcasts |-> 0]
    /\ proc = [pc |-> "construct", observers |-> 0, boot |-> "none"]

Init == Start(MaxEvents, MaxCalls, 1, 2)

InitRace == Start(MaxRaceEvents, MaxRaceCalls, 1, 2)

\* udev_init is called again after the constructor's call
InitStart == Start(MaxRaceEvents, MaxCalls, MaxStarts, 2)

\* every add_websocket and remove_websocket call comes from one context
InitSingle == Start(MaxEvents, MaxRaceCalls, 1, 1)


\* --------------------------------------------- history of calls (not code)
Opposite(op) == IF op = "add" THEN "remove" ELSE "add"
Outcome(op)  == IF op = "add" THEN "in" ELSE "out"

\* a call of the opposite kind on the same websocket is in progress elsewhere
Overlaps(h, op, w) ==
    \E g \in Handlers \ {h} :
        ctx[g].pc # "idle" /\ ctx[g].ws = w /\ ctx[g].op = Opposite(op)

TaintOthers(h, op, w) ==
    [g \in Handlers |->
        IF g # h /\ ctx[g].pc # "idle" /\ ctx[g].ws = w /\ ctx[g].op = Opposite(op)
        THEN [ctx[g] EXCEPT !.taint = TRUE]
        ELSE ctx[g]]

\* the membership a finished call implies, unless it overlapped an opposite call
Completed(op, w, taint) ==
    [expect EXCEPT ![w] = IF taint THEN "any" ELSE Outcome(op)]

\* ------------------------------------------------------------ write_message
\* websocket.write_message(json.dumps(...)) raises when the connection is
\* closed.  A connection closes at any time, by the peer or by a transport
\* failure; nothing but write_message reads that, so the model lets a
\* websocket close at the write that finds it closed.  ok = FALSE: it raises.
WriteOutcomes(w) == IF w \in closed THEN {FALSE} ELSE BOOLEAN

Closing(w, ok) == IF ok THEN closed ELSE closed \cup {w}

Delivered(w, m) == [received EXCEPT ![w] = Append(@, m)]

\* ------------------------------------------------------------------- calls
\* The connection-handling contexts are interchangeable, and so are the
\* websockets: a new call is taken by the first idle context, and the first
\* call of a run is about the first websocket.
\* no websocket has been told apart from the others yet
NoCallYet ==
    /\ websockets = <<>> /\ removed = {} /\ closed = {}
    /\ \A h \in Handlers : ctx[h].pc = "idle"
    /\ \A w \in WebSockets : expect[w] = "out" /\ received[w] = <<>>
    /\ mon.cur = NoSocket

FirstIdle(h) ==
    /\ ctx[h].pc = "idle"
    /\ \A g \in Handlers : ctx[g].pc = "idle" => Order(h) <= Order(g)

\* lines 205-207: connections are handled once main() listens
Takes(h, w) ==
    /\ proc.pc = "serving"
    /\ cnt.calls > 0
    /\ Order(h) <= cnt.contexts
    /\ FirstIdle(h)
    /\ NoCallYet => Order(w) = 1

\* ----------------------------------------------------------------- startup
\* the constructor catches the error of udev_init and goes on
UdevInitSwallowed(pc) == IF pc = "construct" THEN "listen" ELSE pc

\* lines 57, 203: nothing catches what udev_init raises: inside the
\* constructor the exception leaves __init__ and main(), and the process ends
\* before http_server.listen
UdevInitRaised(pc) == IF pc = "construct" THEN "aborted" ELSE pc

\* line 57 returns: main() goes on to lines 204-205
UdevInitReturned(pc) == IF pc = "construct" THEN "listen" ELSE pc

\* lines 83-84: every call builds a new MonitorObserver and starts it; the
\* one a former call stored in self.observer_usb is neither stopped nor reused
ObserversStarted(n) == n + 1

\* lines 78-84: udev_init.  Context() and Monitor.from_netlink raise when the
\* udev source cannot be opened (opened = FALSE).  The first call is the
\* constructor's (line 57); a later call comes from any code holding the
\* application while it is serving.
udev_init ==
    /\ cnt.starts > 0
    /\ proc.pc \in {"construct", "serving"}
    /\ cnt' = [cnt EXCEPT !.starts = @ - 1]
    /\ \E opened \in BOOLEAN :
          proc' = IF opened
                  THEN [proc EXCEPT !.pc = UdevInitReturned(@),
                                    !.observers = ObserversStarted(@),
                                    !.boot = IF proc.pc = "construct"
                                             THEN "opened" ELSE @]
                  ELSE [proc EXCEPT !.pc = UdevInitRaised(@),
                                    !.boot = IF proc.pc = "construct"
                                             THEN "failed" ELSE @]
    /\ UNCHANGED <<websockets, connected, closed, mon, ctx, received,
                   bc, removed, expect>>

\* lines 204-207: HTTPServer(app), http_server.listen, IOLoop.start
listen ==
    /\ proc.pc = "listen"
    /\ proc' = [proc EXCEPT !.pc = "serving"]
    /\ UNCHANGED <<websockets, connected, closed, mon, ctx, received,
                   bc, removed, expect, cnt>>

\* ------------------------------------------------------------ add_websocket
\* the initialization event carries a default instead of the camera state
InitValueDefault == FALSE

\* line 114: the value of the initialization event
InitValue == connected

\* add_websocket appends without looking
AlreadyRegisteredNever(list, w) == FALSE

\* line 100: `websocket not in self.websockets`, negated
AlreadyRegistered(list, w) == Contains(list, w)

\* line 100: `if websocket not in self.websockets`
add_websocket_check(h, w) ==
    /\ Takes(h, w)
    /\ cnt' = [cnt EXCEPT !.calls = @ - 1]
    /\ IF AlreadyRegistered(websockets, w)
       THEN /\ ctx' = TaintOthers(h, "add", w)
            /\ expect' = Completed("add", w, Overlaps(h, "add", w))
       ELSE /\ ctx' = [TaintOthers(h, "add", w) EXCEPT
                          ![h] = [IdleCtx EXCEPT !.pc = "append", !.op = "add",
                                                 !.ws = w, !.seen = {connected},
                                                 !.taint = Overlaps(h, "add", w)]]
            /\ expect' = expect
    /\ UNCHANGED <<proc, websockets, connected, closed, mon, received,
                   bc, removed>>

\* lines 101, 109-116: self.websockets.append(websocket), then
\* send_init_event_to_websocket builds `events`, reading
\* self.camera.get_connect().  The read moves no other thread's step (only
\* camera.load() writes the state, and it does not touch the list), so the two
\* are one step.
add_websocket_append(h) ==
    /\ ctx[h].pc = "append"
    /\ websockets' = Append(websockets, ctx[h].ws)
    /\ received' = IF Contains(websockets, ctx[h].ws)
                   THEN received
                   ELSE [received EXCEPT ![ctx[h].ws] = <<>>]
    /\ removed' = removed \ {ctx[h].ws}
    /\ bc' = [bc EXCEPT !.stayed = @ \cap Once(websockets')]
    /\ ctx' = [ctx EXCEPT ![h].pc = "write", ![h].val = InitValue]
    /\ UNCHANGED <<proc, connected, closed, mon, expect, cnt>>

\* the initialization events are written to every registered websocket
InitRecipientsAll(websocket, list) == Range(list) \cup {websocket}

\* lines 102, 117-118: the only write_message of add_websocket is called on
\* the websocket that was passed to it
InitRecipients(websocket, list) == {websocket}

\* lines 117-118: websocket.write_message(json.dumps(event)); then both
\* send_init_event_to_websocket and add_websocket return (or the exception
\* of write_message leaves them)
send_init_event_write(h) ==
    /\ ctx[h].pc = "write"
    /\ \E ok \in WriteOutcomes(ctx[h].ws) :
          /\ closed' = Closing(ctx[h].ws, ok)
          /\ received' = IF ok
                         THEN [w \in WebSockets |->
                                 IF w \in InitRecipients(ctx[h].ws, websockets)
                                 THEN Append(received[w], Message("init", ctx[h].val))
                                 ELSE received[w]]
                         ELSE received
    /\ expect' = Completed("add", ctx[h].ws, ctx[h].taint)
    /\ ctx' = [ctx EXCEPT ![h] = IdleCtx]
    /\ UNCHANGED <<proc, websockets, connected, mon, bc, removed, cnt>>

\* --------------------------------------------------------- remove_websocket
\* lines 104-106 run with no other thread in between: the list
\* remove_websocket leaves
remove_websocket(list, w) ==
    IF Contains(list, w) THEN ListRemove(list, w) ELSE list

\* line 105: `if websocket in self.websockets`
remove_websocket_check(h, w) ==
    /\ Takes(h, w)
    /\ cnt' = [cnt EXCEPT !.calls = @ - 1]
    /\ IF Contains(websockets, w)
       THEN /\ ctx' = [TaintOthers(h, "remove", w) EXCEPT
                          ![h] = [IdleCtx EXCEPT !.pc = "remove", !.op = "remove",
                                                 !.ws = w,
                                                 !.taint = Overlaps(h, "remove", w)]]
            /\ expect' = expect
       ELSE /\ ctx' = TaintOthers(h, "remove", w)
            /\ expect' = Completed("remove", w, Overlaps(h, "remove", w))
    /\ UNCHANGED <<proc, websockets, connected, closed, mon, received,
                   bc, removed>>

\* line 106: self.websockets.remove(websocket); list.remove raises ValueError
\* when another context removed the websocket after the test of line 105
remove_websocket_remove(h) ==
    /\ ctx[h].pc = "remove"
    /\ websockets' = IF Contains(websockets, ctx[h].ws)
                     THEN ListRemove(websockets, ctx[h].ws)
                     ELSE websockets
    /\ removed' = IF Contains(websockets, ctx[h].ws)
                  THEN removed \cup {ctx[h].ws}
                  ELSE removed
    /\ bc' = [bc EXCEPT !.stayed = @ \cap Once(websockets')]
    /\ expect' = Completed("remove", ctx[h].ws, ctx[h].taint)
    /\ ctx' = [ctx EXCEPT ![h] = IdleCtx]
    /\ UNCHANGED <<proc, connected, closed, mon, received, cnt>>

\* --------------------------------------------------------- usb_device_event
\* the filter joins its two tests with `or`
QualifiesEither(device) ==
    device.action \in {"add", "remove"} \/ device.device_type = "usb_interface"

\* line 87: the filter of usb_device_event
Qualifies(device) ==
    device.action \in {"add", "remove"} /\ device.device_type = "usb_interface"

\* a qualifying event as the specification defines it (section 3)
QualifyingEvent(device) ==
    /\ device.action = "add" \/ device.action = "remove"
    /\ device.device_type = "usb_interface"

\* a probe error is ignored: the camera keeps what the enumeration reported
CameraLoadUnchecked(probe_ok, present) == present

\* Camera.load (lib/camera.py): re-probes the device and stores the result; a
\* probe error leaves the camera not connected
CameraLoad(probe_ok, present) == IF probe_ok THEN present ELSE FALSE

\* the value is read before camera.load() runs
BroadcastValueStale(before, loaded) == before

\* line 95: the value of the broadcast, read after camera.load() has stored
\* `loaded`
BroadcastValue(before, loaded) == loaded

\* lines 83, 86-97, 120-121: the observer thread reads the next udev event of
\* the usb subsystem and calls usb_device_event(device), one call at a time.
\* A device the filter rejects makes the call return at once.  Otherwise:
\* self.camera.load(); the argument dict is built, reading
\* self.camera.get_connect(); send_msg_to_websockets is called and
\* `for websocket in self.websockets` creates the list iterator at index 0.
\* Only this thread writes the camera state and these steps do not touch the
\* list, so no other thread can tell them apart from one step.
usb_device_event(device) ==
    /\ proc.observers > 0
    /\ mon.pc = "idle"
    /\ cnt.events > 0
    /\ IF Qualifies(device)
       THEN /\ \E probe_ok \in BOOLEAN, present \in BOOLEAN :
                  /\ connected' = CameraLoad(probe_ok, present)
                  /\ mon' = [IdleMon EXCEPT
                                !.pc = "iter", !.refreshed = {connected'},
                                !.qual = QualifyingEvent(device),
                                !.probe = IF probe_ok THEN "ok" ELSE "error",
                                !.msg = BroadcastValue(connected, connected')]
            /\ ctx' = [h \in Handlers |->
                          IF ctx[h].pc # "idle" /\ ctx[h].op = "add"
                          THEN [ctx[h] EXCEPT !.seen = @ \cup {connected'}]
                          ELSE ctx[h]]
            /\ bc' = [NoBroadcast EXCEPT !.stayed = Once(websockets)]
       ELSE /\ mon' = [IdleMon EXCEPT !.pc = "discard",
                                      !.qual = QualifyingEvent(device)]
            /\ UNCHANGED <<connected, ctx, bc>>
    /\ cnt' = [cnt EXCEPT !.qualifying = IF QualifyingEvent(device) THEN @ + 1 ELSE @,
                          !.broadcasts = IF Qualifies(device) THEN @ + 1 ELSE @,
                          !.events = IF Qualifies(device) THEN @ - 1 ELSE @]
    /\ UNCHANGED <<proc, websockets, closed, received, removed, expect>>

\* line 121: the list iterator advances over the live list: it yields
\* self.websockets[idx] while idx < len(self.websockets), else the loop ends
send_msg_to_websockets_iter ==
    /\ mon.pc = "iter"
    /\ mon' = IF mon.idx < Len(websockets)
              THEN [mon EXCEPT !.pc = "write", !.cur = websockets[mon.idx + 1],
                               !.idx = @ + 1, !.probe = "none"]
              ELSE [mon EXCEPT !.pc = "ret", !.cur = NoSocket, !.probe = "none"]
    /\ UNCHANGED <<proc, websockets, connected, closed, ctx, received,
                   bc, removed, expect, cnt>>

\* a failed write drops the websocket from the registry
RegistryPruned(list, w) == IF Contains(list, w) THEN ListRemove(list, w) ELSE list

\* lines 120-122: no statement of send_msg_to_websockets assigns or mutates
\* self.websockets, and nothing catches the exception of write_message: the
\* list is the same after a failed write
RegistryAfterFailure(list, w) == list

\* the loop refreshes the camera and reads its state for every websocket
send_msg_to_websockets_write_reloading ==
    /\ mon.pc = "write"
    /\ \E probe_ok \in BOOLEAN, present \in BOOLEAN :
          connected' = CameraLoad(probe_ok, present)
    /\ \E ok \in WriteOutcomes(mon.cur) :
          /\ closed' = Closing(mon.cur, ok)
          /\ IF ok
             THEN /\ mon' = [mon EXCEPT !.pc = "iter"]
                  /\ received' = Delivered(mon.cur, Message("broadcast", connected'))
                  /\ bc' = [bc EXCEPT !.got[mon.cur] = IF @ < 2 THEN @ + 1 ELSE @,
                                      !.vals = @ \cup {connected'}]
             ELSE /\ mon' = [mon EXCEPT !.pc = "raised"]
                  /\ UNCHANGED <<received, bc>>
    /\ UNCHANGED <<proc, websockets, ctx, removed, expect, cnt>>

\* line 122: websocket.write_message(json.dumps(msg_json)), msg_json being
\* the argument usb_device_event built at lines 90-96; its exception is not
\* caught and leaves the loop, send_msg_to_websockets and usb_device_event
send_msg_to_websockets_write ==
    /\ mon.pc = "write"
    /\ \E ok \in WriteOutcomes(mon.cur) :
          /\ closed' = Closing(mon.cur, ok)
          /\ IF ok
             THEN /\ mon' = [mon EXCEPT !.pc = "iter"]
                  /\ received' = Delivered(mon.cur, Message("broadcast", mon.msg))
                  /\ bc' = [bc EXCEPT !.got[mon.cur] = IF @ < 2 THEN @ + 1 ELSE @,
                                      !.vals = @ \cup {mon.msg}]
                  /\ websockets' = websockets
             ELSE /\ mon' = [mon EXCEPT !.pc = "raised"]
                  /\ websockets' = RegistryAfterFailure(websockets, mon.cur)
                  /\ UNCHANGED <<received, bc>>
    /\ UNCHANGED <<proc, connected, ctx, removed, expect, cnt>>

\* lines 87, 90-97: usb_device_event returns: at once for a device the filter
\* rejected, else when send_msg_to_websockets has returned
usb_device_event_return ==
    /\ mon.pc \in {"ret", "discard"}
    /\ mon' = IdleMon
    /\ bc' = NoBroadcast
    /\ UNCHANGED <<proc, websockets, connected, closed, ctx, received,
                   removed, expect, cnt>>

\* line 83: the exception of the callback reaches the observer thread, which
\* either ends (no event is handled any more) or goes on with the next event
observer_after_raise ==
    /\ mon.pc = "raised"
    /\ \E next \in {"idle", "dead"} : mon' = [IdleMon EXCEPT !.pc = next]
    /\ bc' = NoBroadcast
    /\ UNCHANGED <<proc, websockets, connected, closed, ctx, received,
                   removed, expect, cnt>>

\* ------------------------------------------------------------ specification
Next ==
    \/ udev_init
    \/ listen
    \/ \E h \in Handlers, w \in WebSockets : add_websocket_check(h, w)
    \/ \E h \in Handlers : add_websocket_append(h)
    \/ \E h \in Handlers : send_init_event_write(h)
    \/ \E h \in Handlers, w \in WebSockets : remove_websocket_check(h, w)
    \/ \E h \in Handlers : remove_websocket_remove(h)
    \/ \E d \in Devices : usb_device_event(d)
    \/ send_msg_to_websockets_iter
    \/ send_msg_to_websockets_write
    \/ usb_device_event_return
    \/ observer_after_raise

Spec == Init /\ [][Next]_vars

SpecRace == InitRace /\ [][Next]_vars

SpecStart == InitStart /\ [][Next]_vars

SpecSingle == InitSingle /\ [][Next]_vars


\* -------------------------------------------------------------- properties
Inits(w) == {i \in 1..Len(received[w]) : received[w][i].via = "init"}

InCall(w) == \E h \in Handlers : ctx[h].pc # "idle" /\ ctx[h].ws = w

Quiescent ==
    /\ \A h \in Handlers : ctx[h].pc = "idle"
    /\ mon.pc \in {"idle", "dead"}

Broadcasting == mon.pc \in {"iter", "write", "ret", "raised"}

\* C1: every subscriber receives exactly one initialization message, and
\* receives it before any broadcast message: the first message written to a
\* websocket since it subscribed is the initialization message, and no second
\* one follows.
C1_InitOnceBeforeBroadcast ==
    \A w \in WebSockets :
        received[w] # <<>> =>
            /\ received[w][1].via = "init"
            /\ Cardinality(Inits(w)) = 1

\* C2: the value of the initialization message a context is about to write is
\* a value the camera state has had since add_websocket was called: never one
\* that was already replaced when the call began.
C2_InitValueNotStale ==
    \A h \in Handlers : ctx[h].pc = "write" => ctx[h].val \in ctx[h].seen

\* a websocket subscribes after a device event has been handled and its
\* broadcast is over, with the camera connected: its initialization says true
C2_Witness ==
    \E h \in Handlers :
        /\ ctx[h].pc = "write" /\ ctx[h].seen = {TRUE} /\ ctx[h].val
        /\ cnt.broadcasts > 0 /\ mon.pc = "idle"

\* C3: no state change is lost by a subscription that races it: when no call
\* and no device event is in progress, the last value written to every
\* registered websocket whose connection is open is the current camera state.
C3_NoLostStateChange ==
    Quiescent =>
        \A w \in Range(websockets) \ closed :
            /\ received[w] # <<>>
            /\ received[w][Len(received[w])].value = connected

\* C4: once remove_websocket has removed a websocket (and it has not been
\* appended again), no write_message call of a broadcast starts on it: the
\* loop of send_msg_to_websockets is never about to write to it.
C4_NoWriteAfterRemoval ==
    \A w \in removed : ~(mon.pc = "write" /\ mon.cur = w)

\* C5: a broadcast has snapshot semantics: when its loop has ended, every
\* websocket that was registered (once) when it started, and that no call
\* removed or appended again during it, has received its message exactly once.
C5_BroadcastSnapshot ==
    mon.pc = "ret" => \A w \in bc.stayed : bc.got[w] = 1

\* C6: every qualifying device event handed to usb_device_event starts exactly
\* one broadcast (k events, k broadcasts), and the value of a broadcast is the
\* result of the camera.load() its own event triggered.
C6_OneBroadcastPerEvent ==
    /\ cnt.broadcasts = cnt.qualifying
    /\ Broadcasting => mon.qual /\ mon.refreshed = {mon.msg}
    /\ mon.pc = "discard" => ~mon.qual

\* two qualifying events in a row have been broadcast, the second with a
\* subscriber registered
C6_Witness ==
    /\ cnt.qualifying = 2 /\ cnt.broadcasts = 2
    /\ mon.pc = "ret" /\ websockets # <<>>

\* C7: a write_message that raises for one websocket does not keep the others
\* from the broadcast: when the loop has been left by the exception, every
\* other websocket that was registered throughout, and whose connection is
\* open, has received the message.
C7_SendFailureIsolated ==
    mon.pc = "raised" =>
        \A w \in bc.stayed \ (closed \cup {mon.cur}) : bc.got[w] >= 1

\* C8: a non-qualifying device event is discarded with no side effect: the
\* call of usb_device_event with it, and its return, change neither the camera
\* state, nor the registry, nor any message received, nor start a broadcast.
C8_NonQualifyingDiscarded ==
    [][ /\ (mon.pc = "idle" /\ mon'.pc \notin {"idle", "dead"} /\ ~mon'.qual) =>
              /\ mon'.pc = "discard"
              /\ UNCHANGED <<proc, websockets, connected, closed, ctx, received,
                             bc, removed, expect, cnt>>
        /\ (mon.pc = "discard" /\ mon' # mon) =>
              /\ mon' = IdleMon
              /\ UNCHANGED <<proc, websockets, connected, closed, ctx, received,
                             bc, removed, expect, cnt>> ]_vars

\* usb_device_event has been called with a device its filter rejects, while a
\* websocket is registered
C8_Witness == mon.pc = "discard" /\ ~mon.qual /\ websockets # <<>>

\* C9: the registry never holds a websocket twice.
C9_NoDuplicateSubscriber ==
    \A i, j \in 1..Len(websockets) : i # j => websockets[i] # websockets[j]

\* C10: no add or remove is lost: when no call on a websocket is in progress,
\* it is registered if the completed calls, taken as set operations in
\* real-time order, say it is in the set, and absent if they say it is not
\* (calls that overlapped a call of the opposite kind decide nothing).
C10_MembershipMatchesCalls ==
    \A w \in WebSockets :
        ~InCall(w) =>
            /\ expect[w] = "in" => Contains(websockets, w)
            /\ expect[w] = "out" => ~Contains(websockets, w)

\* a step of add_websocket or remove_websocket: a context moves, or a call
\* returns at its membership test
HandlerStep ==
    \/ cnt'.calls # cnt.calls
    \/ \E h \in Handlers : ctx'[h].pc # ctx[h].pc

\* C11: no registry entry outlives a closed connection: once the connection
\* of a websocket is closed and a remove_websocket call has removed it (and no
\* add_websocket has appended it since), it is not in the registry.
C11_NoOrphanAfterClose ==
    \A w \in removed \cap closed : ~Contains(websockets, w)

C13_RemoveIdempotent ==
    \A w \in WebSockets :
        remove_websocket(remove_websocket(websockets, w), w)
            = remove_websocket(websockets, w)

\* C14: when the constructor's udev_init cannot open the udev source, main()
\* is aborted before it listens: no observer thread runs, no connection is
\* ever handled, no device event is ever handled; and the server never serves
\* without an observer.
C14_StartupAbortedOnUdevFailure ==
    /\ proc.boot = "failed" =>
          /\ proc.pc = "aborted" /\ proc.observers = 0
          /\ websockets = <<>> /\ mon = IdleMon
          /\ \A h \in Handlers : ctx[h] = IdleCtx
    /\ proc.pc \in {"listen", "serving"} =>
          proc.boot = "opened" /\ proc.observers >= 1

\* the udev source could not be opened and main() has ended
C14_Witness == proc.boot = "failed" /\ proc.pc = "aborted"

\* C15: however often udev_init is called, at most one observer thread
\* listens for device events.
C15_AtMostOneListener == proc.observers <= 1

\* C16: a step of add_websocket or remove_websocket changes the messages
\* received by no websocket but the one an add_websocket call taking that
\* step was called with.
C16_SubscribeWritesToSubscriberOnly ==
    [][ HandlerStep =>
            \A w \in WebSockets :
                \/ received'[w] = received[w]
                \/ \E h \in Handlers : /\ ctx'[h].pc # ctx[h].pc
                                       /\ ctx[h].op = "add" /\ ctx[h].ws = w ]_vars

\* both websockets are registered; the second has just received its
\* initialization message and the first holds what it had received before
C16_Witness ==
    /\ websockets = <<"w1", "w2">>
    /\ Len(received["w1"]) = 1
    /\ received["w2"] = <<Message("init", connected)>>
    /\ \A h \in Handlers : ctx[h].pc = "idle"

\* C17: the steps of usb_device_event and send_msg_to_websockets leave the
\* registry as it is, a write_message that raises included; the steps of
\* add_websocket and remove_websocket leave the camera state as it is.
C17_EntryPointsKeepToTheirState ==
    [][ /\ mon' # mon => websockets' = websockets
        /\ HandlerStep => connected' = connected ]_vars

\* a write_message of the broadcast has raised and its websocket is still
\* registered
C17_Witness ==
    /\ mon.pc = "raised" /\ mon.cur \in closed
    /\ Contains(websockets, mon.cur)

C19_NoDuplicateSingleContext ==
    cnt.contexts = 1 => Cardinality(Range(websockets)) = Len(websockets)

\* the one context is inside a call while the loop of a broadcast is about to
\* write, two websockets being registered
C19_Witness ==
    /\ cnt.contexts = 1
    /\ Len(websockets) = 2
    /\ mon.pc = "write"
    /\ ctx["h1"].pc # "idle"

=============================================================================
